---- MODULE Spec2Model ----
(***************************************************************************)
(* Model of the JokeList component (src/components/JokeList.jsx) and of    *)
(* the localStorage helpers (src/utils/localStorage.js).                   *)
(*                                                                         *)
(* State: the six useState cells of the component, the browser's          *)
(* localStorage, the requests issued by fetch() that have not settled     *)
(* yet, the pending passive effect of useEffect, and the clock read by    *)
(* Date.now().  One action per handler / callback / promise continuation. *)
(*                                                                         *)
(* Time: the values of Date.now() are stored and displayed and never       *)
(* decide a branch, so the clock is kept at the granularity of the user's  *)
(* actions: it advances by one with each of them, and every read made      *)
(* while serving the same action returns the same instant.                 *)
(*                                                                         *)
(* Scheduling: a passive effect scheduled by a render is flushed before   *)
(* any later event is handled, so while effectPending holds only the      *)
(* effect runs.  The controls are rendered with disabled={loading}, so    *)
(* the three user handlers require loading = FALSE.                       *)
(***************************************************************************)
EXTENDS Integers, Sequences, FiniteSets, TLC

(***************************************************************************)
(* Bounds of the model.                                                    *)
(***************************************************************************)
MaxInFlight == 2      \* requests awaiting their response at the same time
MaxOps == 2           \* user actions (category change, Refresh, Clear Cache)

(***************************************************************************)
(* Program constants.                                                      *)
(***************************************************************************)
CATEGORIES ==
  <<"Programming", "Miscellaneous", "Dark", "Pun", "Spooky", "Christmas">>

Categories == { CATEGORIES[i] : i \in 1..Len(CATEGORIES) }

\* The options the user selects in the model: the default one and another.
\* The code uses a category only as text in the storage key and in the URL,
\* so two of them show every relation between the categories of two calls.
Selectable == { CATEGORIES[1], CATEGORIES[2] }

SummaryLen == 50      \* substring(0, 50)

Ellipsis == <<46, 46, 46>>    \* '...'

(***************************************************************************)
(* JavaScript values.  A text is a sequence of character codes; a property *)
(* of an object is a string, undefined (absent) or null.                   *)
(***************************************************************************)
Str(t) == [kind |-> "string", s |-> t]

Undefined == [kind |-> "undefined", s |-> <<>>]

Null == [kind |-> "null", s |-> <<>>]

\* JavaScript truthiness of a property: a non-empty string.
Truthy(v) == v.kind = "string" /\ Len(v.s) > 0

\* v || null
OrNull(v) == IF Truthy(v) THEN v ELSE Null

\* String.prototype.substring(0, n) on a text
Substring(t, n) == SubSeq(t, 1, IF Len(t) < n THEN Len(t) ELSE n)

SeqMap(F(_), s) == [i \in 1..Len(s) |-> F(s[i])]

ShortText == <<119, 104, 121>>

LongText == [i \in 1..(SummaryLen + 2) |-> 97 + (i % 3)]

NoFlags == [nsfw |-> FALSE, political |-> FALSE]

SomeFlags == [nsfw |-> TRUE, political |-> FALSE]

(***************************************************************************)
(* Raw joke objects of the API and response bodies.                        *)
(***************************************************************************)
RawSingle(c) ==
  [id |-> 1, category |-> c, type |-> "single", joke |-> Str(ShortText),
   setup |-> Undefined, delivery |-> Undefined, flags |-> NoFlags]

RawTwoPart(c) ==
  [id |-> 2, category |-> c, type |-> "twopart", joke |-> Undefined,
   setup |-> Str(LongText), delivery |-> Str(ShortText), flags |-> SomeFlags]

\* a joke of type single whose joke field is absent
RawNoText(c) ==
  [id |-> 3, category |-> c, type |-> "single", joke |-> Undefined,
   setup |-> Undefined, delivery |-> Undefined, flags |-> NoFlags]

NoArray == [kind |-> "undefined", items |-> <<>>]

Arr(s) == [kind |-> "array", items |-> s]

NoMessage == [has |-> FALSE, text |-> ""]

\* a body is an object that may carry error/message, a jokes property and
\* the fields of a single joke
Body(err, msg, jokesProp, raw) ==
  [error |-> err, message |-> msg, jokes |-> jokesProp,
   id |-> raw.id, category |-> raw.category, type |-> raw.type,
   joke |-> raw.joke, setup |-> raw.setup, delivery |-> raw.delivery,
   flags |-> raw.flags]

Blank(c) ==
  [id |-> 0, category |-> c, type |-> "single", joke |-> Undefined,
   setup |-> Undefined, delivery |-> Undefined, flags |-> NoFlags]

Bodies(c) ==
  { Body(FALSE, NoMessage, Arr(<<RawSingle(c), RawTwoPart(c)>>), Blank(c)),
    Body(FALSE, NoMessage, Arr(<<RawSingle(c), RawNoText(c)>>), Blank(c)),
    Body(FALSE, NoMessage, Arr(<<>>), Blank(c)),
    Body(FALSE, NoMessage, NoArray, RawSingle(c)),
    Body(FALSE, NoMessage, NoArray, Blank(c)),
    Body(TRUE, [has |-> TRUE, text |-> "No matching joke found"], NoArray,
         Blank(c)) }

\* what fetch() settles with: a rejection, or a response with a status
Responses(c) ==
  { [kind |-> "reject", ok |-> FALSE, status |-> 0,
     body |-> Body(FALSE, NoMessage, NoArray, Blank(c))] }
  \cup { [kind |-> "response", ok |-> FALSE, status |-> s,
          body |-> Body(FALSE, NoMessage, NoArray, Blank(c))] : s \in {500} }
  \cup { [kind |-> "response", ok |-> TRUE, status |-> 200, body |-> b] :
           b \in Bodies(c) }

NoResponse ==
  [kind |-> "none", ok |-> FALSE, status |-> 0,
   body |-> Body(FALSE, NoMessage, NoArray, Blank("Programming"))]


(***************************************************************************)
(* Error messages.  A message is a text followed, when code # 0, by the    *)
(* decimal digits of code (the template literal of line 75).               *)
(***************************************************************************)
NoError == [set |-> FALSE, text |-> "", code |-> 0]

Message(t) == [set |-> TRUE, text |-> t, code |-> 0]

\* the message without the interpolated status
StatusMessage_NoStatus(status) ==
  [set |-> TRUE, text |-> "API responded with an error", code |-> 0]

StatusMessage(status) ==
  [set |-> TRUE, text |-> "API responded with status: ", code |-> status]

ApiErrorMessage(data) ==
  IF data.message.has /\ data.message.text # ""
  THEN Message(data.message.text)
  ELSE Message("Unknown API error")

NoJokesMessage == Message("No jokes found in the selected category")

FetchRejectMessage == Message("Failed to fetch")

TypeErrorMessage ==
  Message("Cannot read properties of null (reading 'substring')")

QuotaMessage == Message("The quota has been exceeded.")

(***************************************************************************)
(* Pure parts of fetchJokes.                                               *)
(***************************************************************************)
\* a normalisation that tests for the single joke before the array
Normalize_ObjectFirst(data) ==
  IF Truthy(data.joke) \/ Truthy(data.setup) THEN <<data>>
  ELSE IF data.jokes.kind = "array" THEN data.jokes.items
  ELSE <<>>

\* lines 87-93: the array the response body is normalised to
Normalize(data) ==
  IF data.jokes.kind = "array" THEN data.jokes.items
  ELSE IF Truthy(data.joke) \/ Truthy(data.setup) THEN <<data>>
  ELSE <<>>

\* the emptiness test left out
IsEmptyResult_Never(jokesArray) == FALSE

\* line 96
IsEmptyResult(jokesArray) == Len(jokesArray) = 0

\* lines 101-109: the full record shown on screen
ProcessJoke(joke) ==
  [id |-> joke.id, joke |-> OrNull(joke.joke), setup |-> OrNull(joke.setup),
   delivery |-> OrNull(joke.delivery), category |-> joke.category,
   type |-> joke.type, flags |-> joke.flags]

\* the property limitAttributes takes the summary from
SummarySource(joke) == IF joke.type = "twopart" THEN joke.setup ELSE joke.joke

\* limitAttributes throws a TypeError when it calls substring on null
LimitThrows(joke) == SummarySource(joke).kind # "string"

\* lines 19-29, for a record it does not throw on
limitAttributes(joke) ==
  [id |-> joke.id,
   summary |-> Substring(SummarySource(joke).s, SummaryLen) \o Ellipsis,
   category |-> joke.category, type |-> joke.type]

(***************************************************************************)
(* localStorage: a map from keys to strings.  A stored string is the JSON  *)
(* text of an array (JSON.stringify) or the decimal digits of a number     *)
(* (Number.prototype.toString).                                            *)
(***************************************************************************)
StorageKey(c) == <<"jokes", c>>

TimestampKey(c) == <<"jokes", c, "timestamp">>

\* the keys of the categories the user selects
Keys == { StorageKey(c) : c \in Selectable } \cup
        { TimestampKey(c) : c \in Selectable }

Absent == [kind |-> "absent", items |-> <<>>, num |-> 0]

JSONStringify(data) == [kind |-> "json", items |-> data, num |-> 0]

NumberToString(n) == [kind |-> "digits", items |-> <<>>, num |-> n]

\* JSON.parse of a stored string: [ok, value]; digits parse to a number,
\* which has no length
JSONParse(item) ==
  IF item.kind = "json" THEN [array |-> TRUE, items |-> item.items]
  ELSE [array |-> FALSE, items |-> <<>>]

\* loadJokesFromStorage (localStorage.js 6-14): null when the key is unset
loadJokesFromStorage(ls, key) ==
  IF ls[key].kind = "absent" THEN [array |-> FALSE, items |-> <<>>]
  ELSE JSONParse(ls[key])

\* a cache test that never succeeds
CacheHit_Never(cachedJokes) == FALSE

\* line 50: cachedJokes && cachedJokes.length > 0
CacheHit(cachedJokes) == cachedJokes.array /\ Len(cachedJokes.items) > 0

\* a save that removes the key when setItem throws
saveJokesToStorage_DropOnFailure(ls, key, data, ok) ==
  IF ok THEN [ls EXCEPT ![key] = JSONStringify(data)]
  ELSE [ls EXCEPT ![key] = Absent]

\* a save that appends to the stored array instead of replacing it
saveJokesToStorage_Merge(ls, key, data, ok) ==
  IF ok THEN [ls EXCEPT ![key] = JSONStringify(@.items \o data)] ELSE ls

\* saveJokesToStorage (localStorage.js 21-27); ok = FALSE: setItem throws
\* (quota exceeded) and the exception is swallowed
saveJokesToStorage(ls, key, data, ok) ==
  IF ok THEN [ls EXCEPT ![key] = JSONStringify(data)] ELSE ls

\* clearJokesFromStorage (localStorage.js 33-39)
clearJokesFromStorage(ls, key) == [ls EXCEPT ![key] = Absent]

\* a removal that leaves the key in place
removeItem_Kept(ls, key) == ls

\* localStorage.removeItem
removeItem(ls, key) == [ls EXCEPT ![key] = Absent]

(***************************************************************************)
(* Dates.  new Date(number) is that instant; new Date(string) parses the   *)
(* string as a date-time text, and the decimal digits of an epoch time in  *)
(* milliseconds are not one: the result is Invalid Date.                   *)
(***************************************************************************)
NumberValue(n) == [kind |-> "number", num |-> n]

StringValue(item) == [kind |-> "string", num |-> item.num]

NewDate(v) ==
  IF v.kind = "number" THEN [valid |-> TRUE, ms |-> v.num]
  ELSE [valid |-> FALSE, ms |-> 0]

\* Date.prototype.toLocaleString: the text shown after "Last updated:"
ToLocaleString(d) == [set |-> TRUE, valid |-> d.valid, ms |-> d.ms]

NoDate == [set |-> FALSE, valid |-> FALSE, ms |-> 0]

\* line 55: localStorage.getItem(timestampKey) || Date.now()
TimestampOrNow(ls, key, t) ==
  IF ls[key].kind = "absent" THEN NumberValue(t) ELSE StringValue(ls[key])

(***************************************************************************)
(* State.                                                                  *)
(***************************************************************************)
VARIABLES
  jokes,          \* useState([]): the records on screen
  loading,        \* useState(false)
  error,          \* useState(null)
  category,       \* useState(CATEGORIES[0])
  fromCache,      \* useState(false)
  lastUpdated,    \* useState(null)
  localStorage,   \* the browser's persistent store
  pending,        \* requests awaiting their response, by selectedCategory
  effectPending,  \* the effect of useEffect is scheduled and has not run
  now,            \* the value Date.now() returns; now - 1 user actions so far
  ev              \* the step taken last

vars == <<jokes, loading, error, category, fromCache, lastUpdated,
          localStorage, pending, effectPending, now, ev>>

RECURSIVE SumOver(_, _)
SumOver(f, S) ==
  IF S = {} THEN 0
  ELSE LET x == CHOOSE y \in S : TRUE IN f[x] + SumOver(f, S \ {x})

InFlight == SumOver(pending, Selectable)

\* lines 47-50: the call fetchJokes(selectedCategory, forceRefresh) takes
\* the cache branch
TakesCache(ls, selectedCategory, forceRefresh) ==
  /\ ~forceRefresh
  /\ CacheHit(loadJokesFromStorage(ls, StorageKey(selectedCategory)))

\* op: the handler or callback; cat, force: the arguments of fetchJokes;
\* hit: the call took the cache branch; calls, requests: the calls of
\* fetchJokes and the requests issued so far for the mount or user action
\* being served; resp: what the request settled with; recFailed, tsFailed:
\* the record / timestamp write was refused; prev: the record entry of cat
\* before the step
Event(op, c, force, hit, calls, requests, resp, recFailed, tsFailed, prev) ==
  [op |-> op, cat |-> c, force |-> force, hit |-> hit, calls |-> calls,
   requests |-> requests, resp |-> resp,
   recFailed |-> recFailed, tsFailed |-> tsFailed, prev |-> prev]

\* the event of a call fetchJokes(c, force) on the store ls that is call
\* number calls of its trigger, requests requests having been issued before
CallEvent(op, ls, c, force, calls, requests) ==
  Event(op, c, force, TakesCache(ls, c, force), calls,
        IF TakesCache(ls, c, force) THEN requests ELSE requests + 1,
        NoResponse, FALSE, FALSE, Absent)

\* what earlier visits may have left in the store: nothing, an entry of the
\* default category written by lines 117-118, or such an entry whose
\* timestamp write was refused
EarlierEntry == SeqMap(limitAttributes, <<ProcessJoke(RawSingle(CATEGORIES[1]))>>)

InitialStores ==
  LET empty == [k \in Keys |-> Absent]
      saved == saveJokesToStorage(empty, StorageKey(CATEGORIES[1]),
                                  EarlierEntry, TRUE)
  IN  { empty, saved,
        [saved EXCEPT ![TimestampKey(CATEGORIES[1])] = NumberToString(0)] }

Init ==
  /\ jokes = <<>>
  /\ loading = FALSE
  /\ error = NoError
  /\ category = CATEGORIES[1]
  /\ fromCache = FALSE
  /\ lastUpdated = NoDate
  /\ localStorage \in InitialStores
  /\ pending = [c \in Selectable |-> 0]
  /\ effectPending = TRUE
  /\ now = 1
  /\ ev = Event("init", CATEGORIES[1], FALSE, FALSE, 0, 0, NoResponse,
               FALSE, FALSE, Absent)

(***************************************************************************)
(* fetchJokes up to its await (lines 42-73), on the store ls: the cache    *)
(* branch returns, the other branch issues the request.                    *)
(***************************************************************************)
\* a call that does not reset error before the request (no setError(null))
FetchJokes_KeepsError(ls, selectedCategory, forceRefresh, t) ==
  /\ IF TakesCache(ls, selectedCategory, forceRefresh)
     THEN /\ jokes' = loadJokesFromStorage(ls, StorageKey(selectedCategory)).items
          /\ fromCache' = TRUE
          /\ lastUpdated' = ToLocaleString(NewDate(
                 TimestampOrNow(ls, TimestampKey(selectedCategory), t)))
          /\ loading' = FALSE
          /\ UNCHANGED <<error, pending>>
     ELSE /\ loading' = TRUE
          /\ fromCache' = FALSE
          /\ pending' = [pending EXCEPT ![selectedCategory] = @ + 1]
          /\ UNCHANGED <<jokes, lastUpdated, error>>

\* t: the value of Date.now() during the call
FetchJokes(ls, selectedCategory, forceRefresh, t) ==
  /\ IF TakesCache(ls, selectedCategory, forceRefresh)
     THEN /\ jokes' = loadJokesFromStorage(ls, StorageKey(selectedCategory)).items
          /\ fromCache' = TRUE
          /\ lastUpdated' = ToLocaleString(NewDate(
                 TimestampOrNow(ls, TimestampKey(selectedCategory), t)))
          /\ loading' = FALSE
          /\ UNCHANGED <<error, pending>>
     ELSE /\ loading' = TRUE
          /\ error' = NoError
          /\ fromCache' = FALSE
          /\ pending' = [pending EXCEPT ![selectedCategory] = @ + 1]
          /\ UNCHANGED <<jokes, lastUpdated>>

\* useEffect(() => { fetchJokes(category) }, [category, fetchJokes]): runs
\* after the mount and right after the handleCategoryChange that scheduled it
RunEffect ==
  /\ effectPending
  /\ FetchJokes(localStorage, category, FALSE, now)
  /\ effectPending' = FALSE
  /\ ev' = CallEvent("effect", localStorage, category, FALSE,
                     ev.calls + 1, ev.requests)
  /\ UNCHANGED <<category, localStorage, now>>

\* the controls are disabled while loading; a pending effect runs first.
\* n: the requests the action and its effect issue.
CanAct(n) ==
  /\ ~loading
  /\ ~effectPending
  /\ now <= MaxOps
  /\ InFlight + n <= MaxInFlight

\* handleCategoryChange (lines 133-137); the select fires onChange only for
\* a value other than the current one, and the new category re-runs the effect
HandleCategoryChange(newCategory) ==
  /\ CanAct(IF TakesCache(localStorage, newCategory, FALSE) THEN 0 ELSE 2)
  /\ newCategory # category
  /\ category' = newCategory
  /\ now' = now + 1
  /\ FetchJokes(localStorage, newCategory, FALSE, now')
  /\ effectPending' = TRUE
  /\ ev' = CallEvent("change", localStorage, newCategory, FALSE, 1, 0)
  /\ UNCHANGED localStorage

\* handleRefresh (lines 140-142)
HandleRefresh ==
  /\ CanAct(1)
  /\ now' = now + 1
  /\ FetchJokes(localStorage, category, TRUE, now')
  /\ ev' = CallEvent("refresh", localStorage, category, TRUE, 1, 0)
  /\ UNCHANGED <<category, localStorage, effectPending>>

\* the store after the two removals of handleClearCache
ClearedStore(ls, c) ==
  removeItem(clearJokesFromStorage(ls, StorageKey(c)), TimestampKey(c))

\* handleClearCache (lines 145-149)
HandleClearCache ==
  /\ CanAct(1)
  /\ localStorage' = ClearedStore(localStorage, category)
  /\ now' = now + 1
  /\ FetchJokes(localStorage', category, TRUE, now')
  /\ ev' = CallEvent("clear", localStorage', category, TRUE, 1, 0)
  /\ UNCHANGED <<category, effectPending>>

(***************************************************************************)
(* fetchJokes after its await (lines 73-129): the continuation that runs   *)
(* when the request of a call fetchJokes(c, ...) settles with resp (the    *)
(* continuation does not read forceRefresh).                               *)
(* recOk / tsOk: whether setItem accepts the record / the timestamp write  *)
(* (both TRUE when the fetch does not reach the writes).                   *)
(***************************************************************************)
\* the exception thrown before setJokes (lines 73-98), NoError when none
EarlyError(resp) ==
  IF resp.kind = "reject" THEN FetchRejectMessage
  ELSE IF ~resp.ok THEN StatusMessage(resp.status)
  ELSE IF resp.body.error THEN ApiErrorMessage(resp.body)
  ELSE IF IsEmptyResult(Normalize(resp.body)) THEN NoJokesMessage
  ELSE NoError

Processed(resp) == SeqMap(ProcessJoke, Normalize(resp.body))

ShrinkThrows(resp) ==
  \E i \in 1..Len(Processed(resp)) : LimitThrows(Processed(resp)[i])

Limited(resp) == SeqMap(limitAttributes, Processed(resp))

\* writes that are made whatever the try block threw
ReachesWrites_Always(resp) == TRUE

\* the fetch reaches the writes of lines 117-118
ReachesWrites(resp) == ~EarlyError(resp).set /\ ~ShrinkThrows(resp)

\* writes whose keys are built from the category state instead of the
\* argument selectedCategory
Written_UnderSelected(ls, c, resp, recOk, tsOk, t) ==
  LET saved == saveJokesToStorage(ls, StorageKey(category), Limited(resp), recOk)
  IN  IF tsOk THEN [saved EXCEPT ![TimestampKey(category)] = NumberToString(t)]
      ELSE saved

\* the store after lines 117-118
Written(ls, c, resp, recOk, tsOk, t) ==
  LET saved == saveJokesToStorage(ls, StorageKey(c), Limited(resp), recOk)
  IN  IF tsOk THEN [saved EXCEPT ![TimestampKey(c)] = NumberToString(t)]
      ELSE saved

\* the exception the catch block receives, NoError when the try block ends
Thrown(resp, tsOk) ==
  IF EarlyError(resp).set THEN EarlyError(resp)
  ELSE IF ShrinkThrows(resp) THEN TypeErrorMessage
  ELSE IF ~tsOk THEN QuotaMessage
  ELSE NoError

\* a catch block that issues the request again
Outstanding_Retry(p, c, thrown) ==
  IF thrown.set THEN p ELSE [p EXCEPT ![c] = @ - 1]

\* the requests outstanding once the request of a call for c has settled:
\* neither the try block nor the catch block (lines 121-126) issues another
Outstanding(p, c, thrown) == [p EXCEPT ![c] = @ - 1]

\* setLoading(false) as the last statement of the try block instead
LoadingAfter_TryOnly(thrown, was) == IF thrown.set THEN was ELSE FALSE

\* lines 127-129: finally { setLoading(false) }, whatever was thrown
LoadingAfter(thrown, was) == FALSE

FetchComplete(c, resp, recOk, tsOk) ==
  /\ ~effectPending
  /\ pending[c] > 0
  /\ pending' = Outstanding(pending, c, Thrown(resp, tsOk))
  /\ (recOk /\ tsOk) \/ ReachesWrites(resp)
  /\ ev' = Event("complete", c, FALSE, FALSE, 0, 0, resp,
                 ~recOk /\ ReachesWrites(resp), ~tsOk /\ ReachesWrites(resp),
                 localStorage[StorageKey(c)])
  /\ lastUpdated' = IF EarlyError(resp).set THEN lastUpdated
                    ELSE ToLocaleString(NewDate(NumberValue(now)))
  /\ localStorage' = IF ReachesWrites(resp)
                     THEN Written(localStorage, c, resp, recOk, tsOk, now)
                     ELSE localStorage
  /\ IF Thrown(resp, tsOk).set
     THEN /\ error' = Thrown(resp, tsOk)
          /\ jokes' = <<>>
     ELSE /\ jokes' = Processed(resp)
          /\ error' = error
  /\ loading' = LoadingAfter(Thrown(resp, tsOk), loading)
  /\ UNCHANGED <<category, fromCache, effectPending, now>>

(***************************************************************************)
(* Render (lines 255-291): the block the conditional chain selects, named  *)
(* by its className.                                                       *)
(***************************************************************************)
\* JavaScript truthiness of the error cell: a non-empty string
ErrorTruthy(e) == e.set /\ (e.text # "" \/ e.code # 0)

\* a chain that tests jokes.length before error
Display_EmptyFirst(l, e, j) ==
  IF l THEN "loading-indicator"
  ELSE IF Len(j) = 0 THEN "empty-message"
  ELSE IF ErrorTruthy(e) THEN "error-message"
  ELSE "virtualized-list-container"

\* loading ? ... : error ? ... : jokes.length === 0 ? ... : ...
Display(l, e, j) ==
  IF l THEN "loading-indicator"
  ELSE IF ErrorTruthy(e) THEN "error-message"
  ELSE IF Len(j) = 0 THEN "empty-message"
  ELSE "virtualized-list-container"

\* the user selects another option of the category selector
SelectCategory == \E c \in Selectable : HandleCategoryChange(c)

\* a settling that drops the response when its category is no longer the
\* selected one
Settle_DropStale ==
  \E c \in Selectable :
    /\ pending[c] > 0
    /\ \E resp \in Responses(c), recRefused \in BOOLEAN, tsRefused \in BOOLEAN :
         IF c = category
         THEN FetchComplete(c, resp, ~recRefused, ~tsRefused)
         ELSE /\ ~effectPending
              /\ ~recRefused /\ ~tsRefused
              /\ pending' = [pending EXCEPT ![c] = @ - 1]
              /\ ev' = Event("complete", c, FALSE, FALSE, 0, 0, resp,
                             FALSE, FALSE, localStorage[StorageKey(c)])
              /\ UNCHANGED <<jokes, loading, error, category, fromCache,
                             lastUpdated, localStorage, effectPending, now>>

\* an outstanding request settles, with any response and any store
\* behaviour (recRefused / tsRefused: setItem throws on the record / the
\* timestamp write)
Settle ==
  \E c \in Selectable :
    /\ pending[c] > 0
    /\ \E resp \in Responses(c), recRefused \in BOOLEAN, tsRefused \in BOOLEAN :
         FetchComplete(c, resp, ~recRefused, ~tsRefused)

Next ==
  \/ RunEffect
  \/ SelectCategory
  \/ HandleRefresh
  \/ HandleClearCache
  \/ Settle

Spec == Init /\ [][Next]_vars

\* Scheduling: React flushes a scheduled passive effect, and the request of
\* an outstanding fetch settles (the browser resolves or rejects the promise).
FairSpec == Spec /\ WF_vars(RunEffect) /\ WF_vars(Settle)

(***************************************************************************)
(* The pure part of the continuation (lines 87-117) on its own, applied to *)
(* every shape of body of a 2xx response without error flag: the body is   *)
(* drawn by the initial state and the three stages are applied in the      *)
(* order of the code.  The store is empty and accepts the write.  Between  *)
(* the first two stages jokes holds the local jokesArray.                  *)
(***************************************************************************)
\* exactly SummaryLen characters
ExactText == [i \in 1..SummaryLen |-> 98]

Texts ==
  { Undefined, Null, Str(<<>>), Str(ShortText), Str(ExactText), Str(LongText) }

\* 'single' and 'twopart' are the types of the API; the code treats any
\* other value like 'single'
Types == { "single", "twopart", "unknown" }

WideRaw ==
  { [id |-> 7, category |-> CATEGORIES[1], type |-> ty, joke |-> j,
     setup |-> s, delivery |-> d, flags |-> SomeFlags] :
      ty \in Types, j \in Texts, s \in Texts,
      d \in { Undefined, Str(ShortText) } }

\* the jokes property: absent, null, an object that is no array, an array
JokesProps ==
  { NoArray, [kind |-> "null", items |-> <<>>],
    [kind |-> "object", items |-> <<>>], Arr(<<>>),
    Arr(<<RawSingle(CATEGORIES[1]), RawTwoPart(CATEGORIES[1])>>) }

WideBodies ==
  { Body(FALSE, NoMessage, jp, raw) : jp \in JokesProps, raw \in WideRaw }
  \cup { Body(FALSE, NoMessage, Arr(<<raw>>), Blank(CATEGORIES[1])) :
           raw \in WideRaw }

PipelineInit ==
  /\ jokes = <<>>
  /\ loading = TRUE
  /\ error = NoError
  /\ category = CATEGORIES[1]
  /\ fromCache = FALSE
  /\ lastUpdated = NoDate
  /\ localStorage = [k \in Keys |-> Absent]
  /\ pending = [c \in Selectable |-> 0]
  /\ effectPending = FALSE
  /\ now = 1
  /\ \E b \in WideBodies :
       ev = Event("body", CATEGORIES[1], FALSE, FALSE, 0, 0,
                  [kind |-> "response", ok |-> TRUE, status |-> 200,
                   body |-> b],
                  FALSE, FALSE, Absent)

\* lines 87-93
NormalizeStep ==
  /\ ev.op = "body"
  /\ jokes' = Normalize(ev.resp.body)
  /\ ev' = [ev EXCEPT !.op = "normalized"]
  /\ UNCHANGED <<loading, error, category, fromCache, lastUpdated,
                 localStorage, pending, effectPending, now>>

\* lines 96-112: the empty result throws, otherwise the full records are
\* built and shown
ProcessStep ==
  /\ ev.op = "normalized"
  /\ IF IsEmptyResult(jokes)
     THEN /\ error' = NoJokesMessage
          /\ jokes' = <<>>
          /\ loading' = FALSE
          /\ ev' = [ev EXCEPT !.op = "empty"]
     ELSE /\ jokes' = SeqMap(ProcessJoke, jokes)
          /\ ev' = [ev EXCEPT !.op = "processed"]
          /\ UNCHANGED <<error, loading>>
  /\ UNCHANGED <<category, fromCache, lastUpdated, localStorage, pending,
                 effectPending, now>>

\* lines 116-117 and 121-129: the records are shrunk and saved, or
\* limitAttributes throws
ShrinkStep ==
  /\ ev.op = "processed"
  /\ IF \E i \in 1..Len(jokes) : LimitThrows(jokes[i])
     THEN /\ error' = TypeErrorMessage
          /\ jokes' = <<>>
          /\ ev' = [ev EXCEPT !.op = "threw"]
          /\ UNCHANGED localStorage
     ELSE /\ localStorage' = saveJokesToStorage(localStorage,
                 StorageKey(category), SeqMap(limitAttributes, jokes), TRUE)
          /\ ev' = [ev EXCEPT !.op = "shrunk"]
          /\ UNCHANGED <<error, jokes>>
  /\ loading' = FALSE
  /\ UNCHANGED <<category, fromCache, lastUpdated, pending, effectPending,
                 now>>

PipelineNext == NormalizeStep \/ ProcessStep \/ ShrinkStep

PipelineSpec == PipelineInit /\ [][PipelineNext]_vars

(***************************************************************************)
(* Properties.                                                             *)
(***************************************************************************)
IsShrunk(r) == DOMAIN r = {"id", "summary", "category", "type"}

IsFull(r) ==
  DOMAIN r = {"id", "joke", "setup", "delivery", "category", "type", "flags"}

\* the record key of c holds a non-empty array
HasEntry(ls, c) ==
  ls[StorageKey(c)].kind = "json" /\ Len(ls[StorageKey(c)].items) > 0

\* the response is a 2xx response without error flag whose body normalises
\* to a non-empty array
GoodResponse(resp) ==
  /\ resp.kind = "response" /\ resp.ok /\ ~resp.body.error
  /\ Len(Normalize(resp.body)) > 0

\* C1: a call fetchJokes(c, false) made while jokes:c holds a non-empty array
\* ends with fromCache = true and jokes equal to the stored records, and
\* issues no request.
C1_CacheHitFastPath ==
  [][ (ev'.op \in {"effect", "change"} /\ HasEntry(localStorage, ev'.cat))
      => /\ fromCache'
         /\ jokes' = localStorage[StorageKey(ev'.cat)].items
         /\ pending' = pending ]_vars

C1_Witness ==
  /\ ev.op \in {"effect", "change"}
  /\ HasEntry(localStorage, ev.cat)
  /\ fromCache
  /\ jokes = localStorage[StorageKey(ev.cat)].items
  /\ InFlight = 0

\* C2: resolving a category that has no cache entry (mount or category
\* change) issues exactly one request, and when a request succeeds the
\* state has fromCache = false and jokes = the full records.
C2_OneRequestPerResolve ==
  /\ (ev.op = "effect" /\ ~ev.hit) => ev.requests = 1
  /\ (ev.op = "complete" /\ GoodResponse(ev.resp)
        /\ ~ev.recFailed /\ ~ev.tsFailed /\ ~ShrinkThrows(ev.resp))
       => (~fromCache /\ jokes = Processed(ev.resp))

\* C3: Refresh and Clear Cache issue a request whatever the store holds, and
\* a fetch (forced or not: the continuation is the same) that reaches the
\* record write with the store accepting it leaves under jokes:c exactly
\* the shrunk projection of its response, whatever was there before; no
\* other completion changes that entry.
C3_ForcedRefreshOverwrites ==
  [][ /\ (ev'.op \in {"refresh", "clear"})
         => (loading' /\ pending'[ev'.cat] = pending[ev'.cat] + 1)
      /\ (ev'.op = "complete")
         => localStorage'[StorageKey(ev'.cat)] =
              IF ReachesWrites(ev'.resp) /\ ~ev'.recFailed
              THEN JSONStringify(Limited(ev'.resp))
              ELSE localStorage[StorageKey(ev'.cat)] ]_vars

\* Refresh was clicked while the store held the entry of an earlier visit
\* (the only request since the mount's cache hit), and its response has
\* replaced that entry by a different one
C3_Witness ==
  /\ ev.op = "complete"
  /\ now = 2 /\ category = CATEGORIES[1] /\ InFlight = 0
  /\ ReachesWrites(ev.resp) /\ ~ev.recFailed
  /\ ev.prev = JSONStringify(EarlierEntry)
  /\ ev.prev # localStorage[StorageKey(ev.cat)]
  /\ localStorage[StorageKey(ev.cat)] = JSONStringify(Limited(ev.resp))

\* C4: each change of the selected category, and the mount, causes exactly
\* one call of fetchJokes.
C4_OneCallPerChange == ev.op = "effect" => ev.calls = 1

\* C5: in every reachable state the elements of jokes are all shrunk records
\* when fromCache = true and all full records when fromCache = false.
C5_Homogeneous ==
  \A i \in 1..Len(jokes) :
    IF fromCache THEN IsShrunk(jokes[i]) ELSE IsFull(jokes[i])

\* C6: at most one request awaits its response at any time.
C6_AtMostOneInFlight == InFlight <= 1

\* C7: when a request is answered with a non-success status, the fetch ends
\* with error = a message containing the status, jokes = [] and
\* loading = false.
C7_HttpStatusError ==
  (ev.op = "complete" /\ ev.resp.kind = "response" /\ ~ev.resp.ok)
    => /\ error.set /\ error.code = ev.resp.status
       /\ jokes = <<>>
       /\ ~loading

C7_Witness ==
  /\ ev.op = "complete" /\ ev.resp.kind = "response" /\ ev.resp.status = 500
  /\ error.code = 500 /\ jokes = <<>> /\ ~loading

\* C8: when a 2xx response without error flag normalises to the empty array,
\* the fetch ends with the 'No jokes found in the selected category' error,
\* jokes = [], loading = false, and the store is left as it was.
C8_EmptyResult ==
  [][ (/\ ev'.op = "complete" /\ ev'.resp.kind = "response" /\ ev'.resp.ok
       /\ ~ev'.resp.body.error
       /\ Len(Normalize(ev'.resp.body)) = 0)
      => /\ error' = Message("No jokes found in the selected category")
         /\ jokes' = <<>>
         /\ ~loading'
         /\ localStorage' = localStorage ]_vars

C8_Witness ==
  /\ ev.op = "complete" /\ ev.resp.kind = "response" /\ ev.resp.ok
  /\ ~ev.resp.body.error
  /\ ev.resp.body.jokes.kind = "array" /\ Len(ev.resp.body.jokes.items) = 0
  /\ error = Message("No jokes found in the selected category")
  /\ jokes = <<>>

\* C9: when the store refuses the record write or the timestamp write of a
\* fetch, error stays null and jokes holds the full records of the response.
C9_StorageFailureSwallowed ==
  (ev.op = "complete" /\ (ev.recFailed \/ ev.tsFailed))
    => (~error.set /\ jokes = Processed(ev.resp))

\* C10: a 2xx response without error flag whose normalised array is not
\* empty commits (the store accepting the writes): error = null, jokes = one
\* full record per raw object, and jokes:c holds one shrunk record per raw
\* object -- also when a raw object lacks joke, setup or delivery.
C10_CommitsOnEveryRawObject ==
  (ev.op = "complete" /\ GoodResponse(ev.resp) /\ ~ev.recFailed /\ ~ev.tsFailed)
    => /\ ~error.set
       /\ jokes = Processed(ev.resp)
       /\ localStorage[StorageKey(ev.cat)].kind = "json"
       /\ Len(localStorage[StorageKey(ev.cat)].items) = Len(Normalize(ev.resp.body))

\* C11: under the assumption that an outstanding request settles, every state
\* with loading = true is followed by a state with loading = false, and the
\* completion of a fetch leaves loading = false whatever the request settled
\* with (success, error status, API error body, no jokes, an exception).
C11_LoadingEnds ==
  /\ loading ~> ~loading
  /\ [][ ev'.op = "complete" => ~loading' ]_vars

\* a fetch has ended in the catch block and nothing is outstanding
C11_Witness ==
  /\ ev.op = "complete" /\ Thrown(ev.resp, ~ev.tsFailed).set
  /\ error.set /\ ~loading /\ InFlight = 0

\* the key holds a string
Present(ls, key) == ls[key].kind # "absent"

\* C12: after an operation that writes or deletes the entry of a category
\* (a fetch that reaches the writes of lines 117-118, Clear Cache), the
\* record key of that category is present if and only if its timestamp key
\* is present.
C12_KeysPaired ==
  (ev.op = "clear" \/ (ev.op = "complete" /\ ReachesWrites(ev.resp)))
    => (Present(localStorage, StorageKey(ev.cat))
          <=> Present(localStorage, TimestampKey(ev.cat)))

\* C13: a step after which the record key of a category no longer holds a
\* non-empty array, while it did before, is a Clear Cache performed while
\* that category is selected: no cache hit, fetch success, fetch failure or
\* tick of the clock deletes or empties an entry.
C13_OnlyClearRemoves ==
  [][ \A c \in Selectable :
        (HasEntry(localStorage, c) /\ ~HasEntry(localStorage', c))
          => (ev'.op = "clear" /\ ev'.cat = c /\ category = c) ]_vars

\* a forced fetch of a category that has an entry has failed, at a later
\* instant than the mount, and the entry is still there
C13_Witness ==
  /\ ev.op = "complete" /\ EarlyError(ev.resp).set
  /\ now > 1
  /\ HasEntry(localStorage, ev.cat)
  /\ localStorage[StorageKey(ev.cat)] = ev.prev

\* C14: Clear Cache leaves the store with the record key and the timestamp
\* key of the selected category absent, and the same deletion applied to
\* that store again leaves it as it is.
C14_ClearIdempotent ==
  [][ ev'.op = "clear"
      => /\ localStorage' = ClearedStore(localStorage, category)
         /\ ~Present(localStorage', StorageKey(category))
         /\ ~Present(localStorage', TimestampKey(category))
         /\ ClearedStore(localStorage', category) = localStorage' ]_vars

\* Clear Cache was the first action after a mount that showed the stored
\* records (they are still on screen), and the entry is gone
C14_Witness ==
  /\ ev.op = "clear" /\ now = 2
  /\ jokes = EarlierEntry
  /\ ~Present(localStorage, StorageKey(category))
  /\ ~Present(localStorage, TimestampKey(category))

\* what the render of the current state shows
Shown == Display(loading, error, jokes)

\* C15: in every reachable state the render shows exactly one of the four
\* blocks: the loading indicator iff loading; the error message iff not
\* loading and error is set; the empty state iff neither and jokes is empty;
\* the list iff neither and jokes is not empty.
C15_OneDisplay ==
  /\ Shown \in {"loading-indicator", "error-message", "empty-message",
                "virtualized-list-container"}
  /\ (Shown = "loading-indicator") <=> loading
  /\ (Shown = "error-message") <=> (~loading /\ error.set)
  /\ (Shown = "empty-message") <=> (~loading /\ ~error.set /\ Len(jokes) = 0)
  /\ (Shown = "virtualized-list-container")
       <=> (~loading /\ ~error.set /\ Len(jokes) > 0)

\* an error is set and jokes is empty: the error message is shown, not the
\* empty state
C15_Witness ==
  /\ ~loading /\ error.set /\ Len(jokes) = 0
  /\ Shown = "error-message"

\* C16: the completion of a fetch, failed or not, issues no request, and a
\* step that issues one is Refresh, Clear Cache, a category change, or the
\* run of the effect that the mount or a category change scheduled: after a
\* failed fetch nothing is requested until the user acts.
C16_NoAutomaticRetry ==
  [][ /\ (ev'.op = "complete") => (InFlight' = InFlight - 1)
      /\ (InFlight' > InFlight)
           => \/ ev'.op \in {"refresh", "clear", "change"}
              \/ (ev'.op = "effect" /\ ev.op \in {"init", "change"}) ]_vars

\* the only outstanding request was rejected: the error is on screen and
\* nothing is outstanding or scheduled
C16_Witness ==
  /\ ev.op = "complete" /\ ev.resp.kind = "reject"
  /\ error = FetchRejectMessage
  /\ InFlight = 0 /\ ~effectPending /\ ~loading

\* C17: a request of a call for category A that settles successfully while
\* another category B is selected is applied all the same: category stays
\* B, jokes becomes the records of the response, all of category A, and
\* lastUpdated becomes the instant of the completion.  Such a completion is
\* reachable (C17_Witness).
C17_StaleCompletionApplied ==
  [][ (/\ ev'.op = "complete" /\ ev'.cat # category
       /\ GoodResponse(ev'.resp) /\ ~ShrinkThrows(ev'.resp) /\ ~ev'.tsFailed)
      => /\ category' = category
         /\ Len(jokes') = Len(Normalize(ev'.resp.body))
         /\ \A i \in 1..Len(jokes') :
              IsFull(jokes'[i]) /\ jokes'[i].category = ev'.cat
         /\ lastUpdated' = [set |-> TRUE, valid |-> TRUE, ms |-> now] ]_vars

\* Programming is selected and shows the records of a Miscellaneous
\* response that arrived after the user went back to Programming
C17_Witness ==
  /\ ev.op = "complete" /\ ev.cat # category
  /\ ~error.set /\ Len(jokes) > 0
  /\ \A i \in 1..Len(jokes) : jokes[i].category = ev.cat
  /\ lastUpdated = [set |-> TRUE, valid |-> TRUE, ms |-> now]

\* the property holds a string of at least one character
HasText(v) == v.kind = "string" /\ v.s # <<>>

\* C18: the array a body is normalised to is the body's jokes property when
\* that is an array (also when the body carries a joke or setup of its
\* own); otherwise the one-element array of the body itself when its joke
\* or its setup is a non-empty string; otherwise the empty array.
C18_Normalization ==
  ev.op = "normalized"
    => LET body == ev.resp.body
       IN  /\ body.jokes.kind = "array" => jokes = body.jokes.items
           /\ (body.jokes.kind # "array"
                 /\ (HasText(body.joke) \/ HasText(body.setup)))
                => jokes = <<body>>
           /\ (body.jokes.kind # "array"
                 /\ ~HasText(body.joke) /\ ~HasText(body.setup))
                => jokes = <<>>

\* a body with both a jokes array and a joke of its own was normalised to
\* the array
C18_Witness ==
  /\ ev.op = "normalized"
  /\ ev.resp.body.jokes.kind = "array" /\ Len(ev.resp.body.jokes.items) = 2
  /\ HasText(ev.resp.body.joke)
  /\ jokes = ev.resp.body.jokes.items

\* the shrunk record the summary rule gives for a full record
SummaryOf(full) ==
  LET src == IF full.type = "twopart" THEN full.setup ELSE full.joke
      n == IF Len(src.s) < 50 THEN Len(src.s) ELSE 50
  IN  [id |-> full.id, summary |-> SubSeq(src.s, 1, n) \o <<46, 46, 46>>,
       category |-> full.category, type |-> full.type]

\* C19: once the full records of a response have gone through lines
\* 116-117, the store holds one shrunk record for every full record: id,
\* category and type unchanged, no other field than summary, and summary =
\* the first min(50, length) characters of the setup (type twopart) or of the
\* single text (any other type) followed by '...'.
C19_ShrunkSummary ==
  ev.op \in {"shrunk", "threw"}
    => LET full == Processed(ev.resp)
           stored == localStorage[StorageKey(category)]
       IN  /\ stored.kind = "json"
           /\ Len(stored.items) = Len(full)
           /\ \A i \in 1..Len(full) : stored.items[i] = SummaryOf(full[i])

\* C20: after a call of fetchJokes that took the cache branch, lastUpdated
\* shows the instant stored under the timestamp key of the category when
\* that key is present, and the current instant when it is absent.
C20_CacheHitLastUpdated ==
  (ev.op \in {"effect", "change"} /\ ev.hit)
    => lastUpdated =
         IF Present(localStorage, TimestampKey(ev.cat))
         THEN [set |-> TRUE, valid |-> TRUE,
               ms |-> localStorage[TimestampKey(ev.cat)].num]
         ELSE [set |-> TRUE, valid |-> TRUE, ms |-> now]

\* C21: in every reachable state, error set implies jokes empty, and a
\* call that took the cache branch and shows a non-empty list leaves error
\* null, so that the list is what the render shows.
C21_ErrorImpliesNoJokes ==
  /\ error.set => Len(jokes) = 0
  /\ (ev.op \in {"effect", "change"} /\ ev.hit /\ Len(jokes) > 0)
       => (~error.set /\ Shown = "virtualized-list-container")

\* C22: loading = true in every state in which a request issued by
\* fetchJokes has not settled yet (so that the controls, disabled while
\* loading, cannot start an operation while a request is outstanding).
C22_LoadingWhileOutstanding == InFlight > 0 => loading

\* C23: a fetch that fails with a non-success status, an API error flag or
\* an empty normalised result (or a rejected request) leaves every key of
\* the store as it was; an entry that was there is still there, so that a
\* later call without forceRefresh takes the cache branch.
C23_FailedFetchKeepsStore ==
  [][ (ev'.op = "complete" /\ ev'.resp.kind = "response"
         /\ (\/ ~ev'.resp.ok
             \/ ev'.resp.body.error
             \/ Len(Normalize(ev'.resp.body)) = 0))
      => /\ localStorage' = localStorage
         /\ \A c \in Selectable :
              HasEntry(localStorage, c) => TakesCache(localStorage', c, FALSE) ]_vars

\* Refresh of a cached category was answered with an API error body: the
\* records and the timestamp of the earlier fetch are still in the store
C23_Witness ==
  /\ ev.op = "complete" /\ ev.resp.kind = "response" /\ ev.resp.body.error
  /\ now > 1 /\ ev.cat = category
  /\ localStorage[StorageKey(ev.cat)] = JSONStringify(EarlierEntry)
  /\ Present(localStorage, TimestampKey(ev.cat))

\* C24: the completion of a fetch started for category c changes no key of
\* another category, whatever category is selected by then; when it changes
\* the record key of c, the new value is the shrunk projection of its
\* response, a response to a request for c; and after it every entry
\* jokes:c holds shrunk records of category c only.
C24_WritesUnderOwnKey ==
  [][ ev'.op = "complete"
      => /\ \A c \in Selectable \ {ev'.cat} :
              /\ localStorage'[StorageKey(c)] = localStorage[StorageKey(c)]
              /\ localStorage'[TimestampKey(c)] = localStorage[TimestampKey(c)]
         /\ localStorage'[StorageKey(ev'.cat)] # localStorage[StorageKey(ev'.cat)]
              => /\ ev'.resp \in Responses(ev'.cat)
                 /\ localStorage'[StorageKey(ev'.cat)].items
                      = SeqMap(SummaryOf, Processed(ev'.resp))
         /\ \A c \in Selectable :
              \A i \in 1..Len(localStorage'[StorageKey(c)].items) :
                /\ IsShrunk(localStorage'[StorageKey(c)].items[i])
                /\ localStorage'[StorageKey(c)].items[i].category = c ]_vars

\* a request for Miscellaneous has settled after the user went back to
\* Programming, and its records are under jokes:Miscellaneous
C24_Witness ==
  /\ ev.op = "complete" /\ ev.cat # category
  /\ ReachesWrites(ev.resp) /\ ~ev.recFailed
  /\ HasEntry(localStorage, ev.cat)
  /\ localStorage[StorageKey(ev.cat)] # ev.prev
  /\ \A i \in 1..Len(localStorage[StorageKey(ev.cat)].items) :
       localStorage[StorageKey(ev.cat)].items[i].category = ev.cat

\* C25: in no reachable state are loading = true and error set together.
C25_NeverLoadingWithError == ~(loading /\ error.set)

\* the second user action is a Refresh made while the error of a failed
\* fetch was on screen (jokes was emptied by the catch block after
\* lastUpdated had been set): loading is true and error is null again
C25_Witness ==
  /\ ev.op = "refresh" /\ now = 3
  /\ Len(jokes) = 0 /\ lastUpdated.set
  /\ loading /\ ~error.set

====
